---- MODULE Spec2Model ----
(***************************************************************************)
(* TlRef: the TL schema scraper (tl_doc_scraper.py) and the HTML builder   *)
(* (build_html.py).                                                        *)
(*                                                                         *)
(* Text is modelled character by character: a Python str is a sequence of  *)
(* one-character strings, so that strip, split, startswith, the `in` test  *)
(* and the regular expressions are computed the way the code computes      *)
(* them.                                                                   *)
(***************************************************************************)
EXTENDS Integers, Sequences, FiniteSets, TLC

(***************************************************************************)
(* Characters and str methods                                              *)
(***************************************************************************)
LowerSeq == <<"a","b","c","d","e","f","g","h","i","j","k","l","m",
              "n","o","p","q","r","s","t","u","v","w","x","y","z">>

UpperSeq == <<"A","B","C","D","E","F","G","H","I","J","K","L","M",
              "N","O","P","Q","R","S","T","U","V","W","X","Y","Z">>

DigitSeq == <<"0","1","2","3","4","5","6","7","8","9">>

Range(s) == {s[i] : i \in DOMAIN s}

Lower == Range(LowerSeq)

Upper == Range(UpperSeq)

Digit == Range(DigitSeq)

HexDigit == Digit \cup {"a","b","c","d","e","f","A","B","C","D","E","F"}

Letter == Lower \cup Upper

\* \w of the re module, on ASCII text
WordChar == Letter \cup Digit \cup {"_"}

\* the characters str.strip() and \s remove
Space == {" ", "\t", "\n", "\r"}

IndexIn(c, s) == CHOOSE i \in DOMAIN s : s[i] = c

ToUpper(c) == IF c \in Lower THEN UpperSeq[IndexIn(c, LowerSeq)] ELSE c

ToLower(c) == IF c \in Upper THEN LowerSeq[IndexIn(c, UpperSeq)] ELSE c

\* s[i:j] of Python with 0 <= i, counted from 1 here: the characters i..j
Slice(s, i, j) == IF j < i THEN <<>> ELSE SubSeq(s, i, j)

\* s[i:] counted from 1
From(s, i) == Slice(s, i, Len(s))

\* s[:n]
Take(s, n) == IF n >= Len(s) THEN s ELSE Slice(s, 1, n)

\* str.startswith
StartsWith(s, p) == Len(p) <= Len(s) /\ Slice(s, 1, Len(p)) = p

\* p in s, for strings
Contains(s, p) == \E i \in 1..(Len(s) - Len(p) + 1) : Slice(s, i, i + Len(p) - 1) = p

RECURSIVE LStrip(_)
LStrip(s) == IF s # <<>> /\ Head(s) \in Space THEN LStrip(Tail(s)) ELSE s

RECURSIVE RStrip(_)
RStrip(s) == IF s # <<>> /\ s[Len(s)] \in Space THEN RStrip(Slice(s, 1, Len(s) - 1)) ELSE s

\* str.strip()
Strip(s) == RStrip(LStrip(s))

\* str.replace for one character
ReplaceChar(s, a, b) == [i \in DOMAIN s |-> IF s[i] = a THEN b ELSE s[i]]

\* str.split(sep) for a one-character separator: never empty, keeps empty parts
RECURSIVE Split(_, _)
Split(s, sep) ==
    IF \E i \in DOMAIN s : s[i] = sep
    THEN LET i == CHOOSE k \in DOMAIN s : s[k] = sep /\ \A m \in 1..(k - 1) : s[m] # sep
         IN  <<Slice(s, 1, i - 1)>> \o Split(From(s, i + 1), sep)
    ELSE <<s>>

\* str.rsplit(sep, 1)[-1] and s.split(sep)[-1]: the text after the last separator
LastPart(s, sep) == LET parts == Split(s, sep) IN parts[Len(parts)]

\* str.capitalize()
\* The first character keeps its case swapped and the rest is lower-cased:
\* a capitalization that is not stable under a second application.
SwapFirst(s) ==
    [i \in DOMAIN s |->
        IF i = 1 THEN (IF s[i] \in Upper THEN ToLower(s[i]) ELSE ToUpper(s[i]))
        ELSE ToLower(s[i])]

Capitalize(s) == [i \in DOMAIN s |-> IF i = 1 THEN ToUpper(s[i]) ELSE ToLower(s[i])]

RECURSIVE Concat(_)
Concat(ss) == IF ss = <<>> THEN <<>> ELSE Head(ss) \o Concat(Tail(ss))

\* the length of the longest prefix of s, from position i, made of characters of cls
RECURSIVE RunLen(_, _, _)
RunLen(s, i, cls) == IF i <= Len(s) /\ s[i] \in cls THEN 1 + RunLen(s, i + 1, cls) ELSE 0

(***************************************************************************)
(* build_html.py: to_go_name                                               *)
(***************************************************************************)
\* the lookahead (?=[A-Z][a-z]|\d|\W|$) at position e
AcronymEnd(s, e) ==
    \/ e > Len(s)
    \/ e <= Len(s) /\ s[e] \in Digit
    \/ e <= Len(s) /\ s[e] \notin WordChar
    \/ e + 1 <= Len(s) /\ s[e] \in Upper /\ s[e + 1] \in Lower

\* the length of the match of [A-Z]?[a-z]+|[A-Z]+(?=...)|\d+ at position i, 0 for none
WordMatchLen(s, i) ==
    LET lows  == RunLen(s, i, Lower)
        lows2 == RunLen(s, i + 1, Lower)
        ups   == RunLen(s, i, Upper)
        digs  == RunLen(s, i, Digit)
        acr   == {k \in 1..ups : AcronymEnd(s, i + k)}
    IN  IF s[i] \in Upper /\ lows2 > 0 THEN 1 + lows2
        ELSE IF lows > 0 THEN lows
        ELSE IF acr # {} THEN CHOOSE k \in acr : \A m \in acr : m <= k
        ELSE digs

\* re.findall of that pattern on s, from position i
RECURSIVE FindWords(_, _)
FindWords(s, i) ==
    IF i > Len(s) THEN <<>>
    ELSE LET n == WordMatchLen(s, i)
         IN  IF n = 0 THEN FindWords(s, i + 1)
             ELSE <<Slice(s, i, i + n - 1)>> \o FindWords(s, i + n)

\* the words of the part joined as they are
JoinWords(part) == Concat(FindWords(part, 1))

GoPart(part) ==
    LET words == FindWords(part, 1)
    IN  IF words # <<>>
        THEN Concat([k \in DOMAIN words |-> Capitalize(words[k])])
        ELSE Capitalize(part)

\* as to_go_name, the dots not replaced before the split
SplitOnUnderscoresOnly(name) ==
    LET parts == Split(name, "_")
    IN  Concat([k \in DOMAIN parts |-> GoPart(parts[k])])

to_go_name(name) ==
    LET parts == Split(ReplaceChar(name, ".", "_"), "_")
    IN  Concat([k \in DOMAIN parts |-> GoPart(parts[k])])

(***************************************************************************)
(* build_html.py: example values.  Generated Go text is a sequence of      *)
(* strings: the literal pieces of the f-strings as they are written in the *)
(* source, the interpolated names character by character.                  *)
(***************************************************************************)
Lit(text) == <<text>>

FLAGS == <<"f","l","a","g","s">>

FLAGS_DOT == <<"f","l","a","g","s",".">>

HASH == <<"#">>

VECTOR == <<"V","e","c","t","o","r">>

T_string == <<"s","t","r","i","n","g">>

T_int == <<"i","n","t">>

T_int32 == <<"i","n","t","3","2">>

T_long == <<"l","o","n","g">>

T_int64 == <<"i","n","t","6","4">>

T_double == <<"d","o","u","b","l","e">>

T_bytes == <<"b","y","t","e","s">>

T_Bool == <<"B","o","o","l">>

T_true == <<"t","r","u","e">>

InputPeer == <<"I","n","p","u","t","P","e","e","r">>

InputPeerUser == <<"I","n","p","u","t","P","e","e","r","U","s","e","r">>

InputUser == <<"I","n","p","u","t","U","s","e","r">>

InputUserSelf == <<"I","n","p","u","t","U","s","e","r","S","e","l","f">>

Chat == <<"C","h","a","t">>

InputFile == <<"I","n","p","u","t","F","i","l","e">>

\* entries of INTERFACE_EXAMPLES: an implementation with fields to show, one with
\* an empty expansion, two without an expansion of their own name
INTERFACE_EXAMPLES ==
    (InputPeer :> InputPeerUser) @@ (InputUser :> InputUserSelf)
    @@ (Chat :> Chat) @@ (InputFile :> InputFile)

\* entries of STRUCT_EXPANSIONS; InputUserSelf maps to ''
STRUCT_EXPANSIONS ==
    (InputPeerUser :> Lit("UserID: int64(123456789)"))
    @@ (InputUserSelf :> <<>>)
    @@ (InputUser :> Lit("UserID: int64(123456789), AccessHash: int64(0)"))
    @@ (InputFile :> Lit("ID: int64(0), Parts: 1, Name: \"file.dat\""))

\* what get_expanded_struct returns for a type without an expansion
NoText == <<>>

get_expanded_struct(type_name) ==
    LET go_name == to_go_name(type_name)
    IN  IF type_name \in DOMAIN STRUCT_EXPANSIONS
        THEN IF STRUCT_EXPANSIONS[type_name] # <<>>
             THEN Lit("&tg.") \o go_name \o Lit("{") \o STRUCT_EXPANSIONS[type_name] \o Lit("}")
             ELSE Lit("&tg.") \o go_name \o Lit("{}")
        ELSE NoText

\* re.sub(r'^flags\.\d+\?', '', field_type)
StripFlagsPrefix(field_type) ==
    LET d == IF StartsWith(field_type, FLAGS_DOT) THEN RunLen(field_type, 7, Digit) ELSE 0
    IN  IF d > 0 /\ 7 + d <= Len(field_type) /\ field_type[7 + d] = "?"
        THEN From(field_type, 8 + d)
        ELSE field_type

\* group 1 of re.match(r'Vector<(.+)>', clean_type), <<>> when there is no match
VectorInner(clean_type) ==
    LET closes == {k \in DOMAIN clean_type : k > 8 /\ clean_type[k] = ">"}
        last   == CHOOSE k \in closes : \A m \in closes : m <= k
    IN  IF StartsWith(clean_type, VECTOR \o <<"<">>) /\ closes # {}
        THEN Slice(clean_type, 8, last - 1)
        ELSE <<>>

get_type_example(field_type, include_comment, expand_struct) ==
    LET clean_type    == StripFlagsPrefix(field_type)
        inner_type    == VectorInner(clean_type)
        inner_go_name == to_go_name(inner_type)
        go_type_name  == to_go_name(clean_type)
    IN  IF Contains(clean_type, T_string) THEN Lit("\"...\"")
        ELSE IF clean_type \in {T_int, T_int32} THEN Lit("0")
        ELSE IF clean_type \in {T_long, T_int64} THEN Lit("int64(0)")
        ELSE IF clean_type = T_double THEN Lit("0.0")
        ELSE IF clean_type = T_bytes THEN Lit("[]byte{}")
        ELSE IF clean_type \in {T_Bool, T_true} THEN Lit("true")
        ELSE IF inner_type # <<>>
        THEN IF inner_type \in {T_int, T_long, T_string, T_bytes, T_int32, T_int64}
             THEN Lit("[]") \o inner_type \o Lit("{}")
             ELSE IF inner_type \in DOMAIN INTERFACE_EXAMPLES
             THEN LET impl == INTERFACE_EXAMPLES[inner_type]
                  IN  IF expand_struct /\ get_expanded_struct(impl) # NoText
                      THEN Lit("[]tg.") \o inner_go_name \o Lit("{")
                           \o get_expanded_struct(impl) \o Lit("}")
                      ELSE Lit("[]tg.") \o inner_go_name \o Lit("{&tg.")
                           \o to_go_name(impl) \o Lit("{}}")
             ELSE Lit("[]tg.") \o inner_go_name \o Lit("{&tg.") \o inner_go_name \o Lit("{}}")
        ELSE IF clean_type # <<>> /\ clean_type[1] \in Upper
        THEN IF clean_type \in DOMAIN INTERFACE_EXAMPLES
             THEN LET impl == INTERFACE_EXAMPLES[clean_type]
                  IN  IF expand_struct /\ get_expanded_struct(impl) # NoText
                      THEN get_expanded_struct(impl)
                      ELSE IF include_comment
                      THEN Lit("&tg.") \o to_go_name(impl) \o Lit("{}  // or other ")
                           \o clean_type \o Lit(" implementations")
                      ELSE Lit("&tg.") \o to_go_name(impl) \o Lit("{}")
             ELSE IF expand_struct /\ get_expanded_struct(clean_type) # NoText
             THEN get_expanded_struct(clean_type)
             ELSE Lit("&tg.") \o go_type_name \o Lit("{}")
        ELSE Lit("nil")

(***************************************************************************)
(* build_html.py: generate_gogram_example                                  *)
(***************************************************************************)
\* a dict that is iterated is a sequence of [key, value] in insertion order
HasKey(d, k) == \E n \in DOMAIN d : d[n].key = k

Lookup(d, k) == d[CHOOSE n \in DOMAIN d : d[n].key = k].value

Keys(d) == [n \in DOMAIN d |-> d[n].key]

OBJ == <<"O","b","j">>

\* "use_positional = len(required_params) <= 5 and ..."
PositionalMax == 5

\* "for p in required_params[:8]" of a method
MethodRequiredShown == 8

\* "for opt in optional_params[:4]" of a method
MethodOptionalShown == 4

\* "for p in required_params[:6]" of a constructor
ConstructorRequiredShown == 6

\* "for opt in optional_params[:4]" of a constructor
ConstructorOptionalShown == 4

\* the name the example uses: go_name, with Obj for a constructor whose base name
\* is a key of type_map
\* the suffix rule applied to every category
SuffixForAnyCategory(name, category, type_map) ==
    IF type_map # <<>> /\ HasKey(type_map, LastPart(name, "."))
    THEN to_go_name(name) \o OBJ
    ELSE to_go_name(name)

ExampleName(name, category, type_map) ==
    LET go_name   == to_go_name(name)
        base_name == LastPart(name, ".")
    IN  IF category = "constructor" /\ type_map # <<>> /\ HasKey(type_map, base_name)
        THEN go_name \o OBJ
        ELSE go_name

\* no field is skipped
SkipsNothing(field) == FALSE

\* "if field_name == 'flags' or field_type == '#': continue"
SkippedField(field) == field.name = FLAGS \/ field.type = HASH

\* "is_optional = 'flags.' in field_type and '?' in field_type"
IsOptionalType(field_type) == Contains(field_type, FLAGS_DOT) /\ Contains(field_type, <<"?">>)

\* the tuple appended for a field: (go_param, example_val, field_type) in the method
\* branch, (go_param, example_val) in the constructor branch
ParamOf(field, category) ==
    IF category = "method"
    THEN <<to_go_name(field.name), get_type_example(field.type, FALSE, TRUE), field.type>>
    ELSE <<to_go_name(field.name), get_type_example(field.type, FALSE, TRUE)>>

\* one iteration of "for field in fields"; ps is [required_params, optional_params]
AddParam(ps, field, category) ==
    IF SkippedField(field) THEN ps
    ELSE IF IsOptionalType(field.type)
    THEN [ps EXCEPT !.optional_params = Append(@, ParamOf(field, category))]
    ELSE [ps EXCEPT !.required_params = Append(@, ParamOf(field, category))]

NoParams == [required_params |-> <<>>, optional_params |-> <<>>]

RECURSIVE CollectParams(_, _, _)
CollectParams(ps, fields, category) ==
    IF fields = <<>> THEN ps
    ELSE CollectParams(AddParam(ps, Head(fields), category), Tail(fields), category)

\* f'    {p[0]}: {p[1]},'
RequiredLine(p) == Lit("    ") \o p[1] \o Lit(": ") \o p[2] \o Lit(",")

\* f'    // {opt[0]}: {opt[1]},'
OptionalLine(opt) == Lit("    // ") \o opt[1] \o Lit(": ") \o opt[2] \o Lit(",")

\* the empty line '' that precedes the optional fields
BlankLine == <<>>

OptionalHeader == Lit("    // Optional fields:")

\* params_lines of either branch: shown_r and shown_o are the slice lengths, more_r
\* and more_o the lines added when the lists are longer
ParamsLines(ps, shown_r, more_r, shown_o, more_o) ==
    LET req == Take(ps.required_params, shown_r)
        opt == Take(ps.optional_params, shown_o)
    IN  [k \in DOMAIN req |-> RequiredLine(req[k])]
        \o (IF Len(ps.required_params) > shown_r THEN <<more_r>> ELSE <<>>)
        \o (IF ps.optional_params # <<>>
            THEN <<BlankLine, OptionalHeader>>
                 \o [k \in DOMAIN opt |-> OptionalLine(opt[k])]
                 \o (IF Len(ps.optional_params) > shown_o THEN <<more_o>> ELSE <<>>)
            ELSE <<>>)

\* the three templates; args is the list that ', '.join turns into the call's
\* arguments, params_lines the list that '\n'.join turns into the struct body
MethodExample(go_name, ps, result_type) ==
    LET go_result == IF result_type # <<>> THEN to_go_name(result_type) ELSE Lit("Response")
        use_positional == Len(ps.required_params) <= PositionalMax
                          /\ Len(ps.optional_params) = 0
    IN  IF use_positional
        THEN [template     |-> "positional arguments",
              go_name      |-> go_name,
              args         |-> [k \in DOMAIN ps.required_params |-> ps.required_params[k][2]],
              params_lines |-> <<>>,
              go_result    |-> go_result]
        ELSE [template     |-> "using Params struct",
              go_name      |-> go_name,
              args         |-> <<>>,
              params_lines |-> ParamsLines(ps, MethodRequiredShown, Lit("    // ..."),
                                           MethodOptionalShown, Lit("    // ...")),
              go_result    |-> go_result]

ConstructorExample(go_name, ps) ==
    [template     |-> "constructor",
     go_name      |-> go_name,
     args         |-> <<>>,
     params_lines |-> ParamsLines(ps, ConstructorRequiredShown,
                                  Lit("    // ... more required fields"),
                                  ConstructorOptionalShown,
                                  Lit("    // ... more optional fields")),
     go_result    |-> <<>>]

BuildExample(category, go_name, ps, result_type) ==
    IF category = "method"
    THEN MethodExample(go_name, ps, result_type)
    ELSE ConstructorExample(go_name, ps)

generate_gogram_example(item, category, type_map) ==
    BuildExample(category,
                 ExampleName(item.name, category, type_map),
                 CollectParams(NoParams, item.fields, category),
                 item.result_type)

(***************************************************************************)
(* build_html.py: get_output_path and the type map of build_html_docs      *)
(***************************************************************************)
CategoryText(category) ==
    IF category = "constructor"
    THEN <<"c","o","n","s","t","r","u","c","t","o","r">>
    ELSE <<"m","e","t","h","o","d">>

DOT_HTML == <<".","h","t","m","l">>

\* a path that leaves the category out
PathWithoutCategory(name, category) ==
    IF "." \in Range(name)
    THEN Slice(name, 1, Len(name) - Len(LastPart(name, ".")) - 1) \o <<"/">>
         \o LastPart(name, ".") \o DOT_HTML
    ELSE name \o DOT_HTML

get_output_path(name, category) ==
    LET item_name == LastPart(name, ".")
        namespace == Slice(name, 1, Len(name) - Len(item_name) - 1)
    IN  IF "." \in Range(name)
        THEN CategoryText(category) \o <<"s","/">> \o namespace \o <<"/">> \o item_name \o DOT_HTML
        ELSE CategoryText(category) \o <<"s","/">> \o name \o DOT_HTML

\* one iteration of "for item in constructors" that builds type_map
TypeMapAdd(type_map, item) ==
    LET result_type == Strip(item.result_type)
    IN  IF item.result_type # <<>> /\ ~StartsWith(item.result_type, VECTOR)
        THEN IF HasKey(type_map, result_type)
             THEN [n \in DOMAIN type_map |->
                     IF type_map[n].key = result_type
                     THEN [key |-> result_type, value |-> Append(type_map[n].value, item)]
                     ELSE type_map[n]]
             ELSE Append(type_map, [key |-> result_type, value |-> <<item>>])
        ELSE type_map

RECURSIVE BuildTypeMap(_, _)
BuildTypeMap(type_map, constructors_) ==
    IF constructors_ = <<>> THEN type_map
    ELSE BuildTypeMap(TypeMapAdd(type_map, Head(constructors_)), Tail(constructors_))

(***************************************************************************)
(* tl_doc_scraper.py: the two regular expressions and the two passes over  *)
(* the schema file                                                         *)
(***************************************************************************)
NameStart == Letter \cup {"_"}

NameDot == WordChar \cup {"."}

FUNCTIONS_MARKER == <<"-","-","-","f","u","n","c","t","i","o","n","s","-","-","-">>

TYPES_MARKER == <<"-","-","-","t","y","p","e","s","-","-","-">>

COMMENT == <<"/","/">>

\* the length of [a-zA-Z_][a-zA-Z0-9_]* at position i, 0 for no match
IdentLen(s, i) == IF i <= Len(s) /\ s[i] \in NameStart THEN RunLen(s, i, WordChar) ELSE 0

\* group 1 of ^([a-zA-Z_][a-zA-Z0-9_]*(?:\.[a-zA-Z_][a-zA-Z0-9_]*)?)#[0-9a-fA-F]+
\* on the line, <<>> when the line does not match
SchemaName(line) ==
    LET n1  == IdentLen(line, 1)
        n2  == IF n1 > 0 /\ n1 + 1 <= Len(line) /\ line[n1 + 1] = "."
               THEN IdentLen(line, n1 + 2) ELSE 0
        end == IF n2 > 0 THEN n1 + 1 + n2 ELSE n1
    IN  IF n1 > 0 /\ end + 2 <= Len(line) /\ line[end + 1] = "#" /\ line[end + 2] \in HexDigit
        THEN Slice(line, 1, end)
        ELSE <<>>

\* a parser that ---types--- does not take out of the function section
SectionAfterSticky(flag, line) == IF line = FUNCTIONS_MARKER THEN TRUE ELSE flag

\* the flag after a section-marker line, unchanged after any other line
SectionAfter(flag, line) ==
    IF line = FUNCTIONS_MARKER THEN TRUE
    ELSE IF line = TYPES_MARKER THEN FALSE
    ELSE flag

\* a loop body that takes a line it cannot parse for the end of the function
\* section
ParseLineLeavingSection(st, raw) ==
    LET line == Strip(raw)
        name == SchemaName(line)
    IN  IF line = <<>> \/ StartsWith(line, COMMENT) THEN st
        ELSE IF line = FUNCTIONS_MARKER \/ line = TYPES_MARKER
        THEN [st EXCEPT !.is_functions_section = SectionAfter(@, line)]
        ELSE IF name # <<>>
        THEN IF st.is_functions_section
             THEN [st EXCEPT !.methods = Append(@, name)]
             ELSE [st EXCEPT !.constructors = Append(@, name)]
        ELSE [st EXCEPT !.is_functions_section = FALSE]

\* one iteration of the loop of parse_schema_file, on the raw line of the file;
\* st is [constructors, methods, is_functions_section]
ParseLine(st, raw) ==
    LET line == Strip(raw)
        name == SchemaName(line)
    IN  IF line = <<>> \/ StartsWith(line, COMMENT) THEN st
        ELSE IF line = FUNCTIONS_MARKER \/ line = TYPES_MARKER
        THEN [st EXCEPT !.is_functions_section = SectionAfter(@, line)]
        ELSE IF name # <<>>
        THEN IF st.is_functions_section
             THEN [st EXCEPT !.methods = Append(@, name)]
             ELSE [st EXCEPT !.constructors = Append(@, name)]
        ELSE st

ParseStart == [constructors |-> <<>>, methods |-> <<>>, is_functions_section |-> FALSE]

RECURSIVE ParseLines(_, _)
ParseLines(st, doc) == IF doc = <<>> THEN st ELSE ParseLines(ParseLine(st, Head(doc)), Tail(doc))

parse_schema_file(doc) == ParseLines(ParseStart, doc)

\* Python's None
None == <<"None">>

\* the length of the longest run of characters outside cls, from position i
RECURSIVE RunLenNot(_, _, _)
RunLenNot(s, i, cls) == IF i <= Len(s) /\ s[i] \notin cls THEN 1 + RunLenNot(s, i + 1, cls) ELSE 0

\* re.finditer of ([a-zA-Z_][a-zA-Z0-9_]*):([^\s]+) on s from position i, and the
\* loop body of parse_tl_definition: a FieldInfo per match whose type is not '#'
RECURSIVE FindParams(_, _)
FindParams(s, i) ==
    IF i > Len(s) THEN <<>>
    ELSE LET n == IdentLen(s, i)
             t == IF n > 0 /\ i + n <= Len(s) /\ s[i + n] = ":"
                  THEN RunLenNot(s, i + n + 1, Space) ELSE 0
             field_name == Slice(s, i, i + n - 1)
             field_type == Slice(s, i + n + 1, i + n + t)
         IN  IF t = 0 THEN FindParams(s, i + 1)
             ELSE IF field_type = <<"#">> THEN FindParams(s, i + n + t + 1)
             ELSE <<[name |-> field_name, type |-> field_type, description |-> <<>>]>>
                  \o FindParams(s, i + n + t + 1)

\* the positions of an '=' that \s*=\s*([a-zA-Z_][a-zA-Z0-9_\.]*) can match
ResultAt(s, q) ==
    LET r == q + 1 + RunLen(s, q + 1, Space)
    IN  q <= Len(s) /\ s[q] = "=" /\ r <= Len(s) /\ s[r] \in NameStart

\* ^([a-zA-Z_][a-zA-Z0-9_\.]*)\#[0-9a-fA-F]+\s*(.*?)\s*=\s*([a-zA-Z_][a-zA-Z0-9_\.]*)
parse_tl_definition(tl_line) ==
    LET n     == IF tl_line # <<>> /\ tl_line[1] \in NameStart
                 THEN RunLen(tl_line, 1, NameDot) ELSE 0
        h     == IF n > 0 /\ n + 1 <= Len(tl_line) /\ tl_line[n + 1] = "#"
                 THEN RunLen(tl_line, n + 2, HexDigit) ELSE 0
        after == n + 2 + h
        eqs   == {q \in after..Len(tl_line) : ResultAt(tl_line, q)}
        q     == CHOOSE x \in eqs : \A y \in eqs : x <= y
        r     == q + 1 + RunLen(tl_line, q + 1, Space)
        params_str == Strip(Slice(tl_line, after, q - 1))
    IN  IF h = 0 \/ eqs = {}
        THEN [name |-> None, fields |-> <<>>, result_type |-> None]
        ELSE [name        |-> Slice(tl_line, 1, n),
              fields      |-> FindParams(params_str, 1),
              result_type |-> Slice(tl_line, r, r + RunLen(tl_line, r, NameDot) - 1)]

\* one iteration of the loop of load_schema_definitions; a dict is a function
LoadLine(definitions, raw) ==
    LET line == Strip(raw)
        d    == parse_tl_definition(line)
    IN  IF line = <<>> \/ StartsWith(line, COMMENT) \/ StartsWith(line, <<"-","-","-">>)
        THEN definitions
        ELSE IF d.name # None
        THEN (d.name :> [fields |-> d.fields, result_type |-> d.result_type, raw_tl |-> line])
             @@ definitions
        ELSE definitions

RECURSIVE LoadLines(_, _)
LoadLines(definitions, doc) ==
    IF doc = <<>> THEN definitions ELSE LoadLines(LoadLine(definitions, Head(doc)), Tail(doc))

\* the empty dict
EmptyDict == [k \in {} |-> <<>>]

load_schema_definitions(doc) == LoadLines(EmptyDict, doc)

(***************************************************************************)
(* tl_doc_scraper.py: fetch_documentation and scrape_all.  A TLEntry keeps *)
(* name, category, description, fields, result_type and raw_tl.  The HTTP  *)
(* response and what BeautifulSoup finds in it are the input `page`.       *)
(***************************************************************************)
create_entry_from_schema(name, category, schema_data) ==
    [name        |-> name,
     category    |-> category,
     description |-> <<>>,
     fields      |-> schema_data.fields,
     result_type |-> schema_data.result_type,
     raw_tl      |-> schema_data.raw_tl]

\* Optional[TLEntry]: no entry (None), or the one entry
NoEntry == <<>>

Some(entry) == <<entry>>

\* "if schema_definitions and name in schema_definitions: return create_entry... ;
\*  return None"
SchemaFallback(name, category, schema_definitions) ==
    IF name \in DOMAIN schema_definitions
    THEN Some(create_entry_from_schema(name, category, schema_definitions[name]))
    ELSE NoEntry

fetch_documentation(name, category, schema_definitions, page) ==
    IF page.raises = "RequestException"
    THEN SchemaFallback(name, category, schema_definitions)
    ELSE IF page.status_code # 200
    THEN SchemaFallback(name, category, schema_definitions)
    ELSE IF page.raises = "Exception"
    THEN SchemaFallback(name, category, schema_definitions)
    ELSE IF page.description = <<>> /\ page.fields = <<>> /\ name \in DOMAIN schema_definitions
    THEN Some([name        |-> name,
               category    |-> category,
               description |-> page.description,
               fields      |-> schema_definitions[name].fields,
               result_type |-> schema_definitions[name].result_type,
               raw_tl      |-> schema_definitions[name].raw_tl])
    ELSE Some([name        |-> name,
               category    |-> category,
               description |-> page.description,
               fields      |-> page.fields,
               result_type |-> page.result_type,
               raw_tl      |-> page.raw_tl])

(***************************************************************************)
(* Bounds and inputs                                                       *)
(***************************************************************************)
\* lines of the schema file read by parse_schema_file
MaxLines == 4

\* lines of the schema file given to scrape_all
MaxSchemaLines == 3

\* the size of the worker pool (the -w option)
MaxWorkers == 2

NL == <<"\n">>

\* "a#1 = T;"
DeclA == <<"a","#","1"," ","="," ","T",";">>

\* "b.c#2f x:int = T;"
DeclB == <<"b",".","c","#","2","f"," ","x",":","i","n","t"," ","="," ","T",";">>

\* "d#3 x:int;": NAME '#' HEX with no "= RESULT_TYPE"
DeclNoResult == <<"d","#","3"," ","x",":","i","n","t",";">>

\* "e = T;": no '#' HEX
Malformed == <<"e"," ","="," ","T",";">>

\* "// a#1 = T;"
CommentLine == COMMENT \o <<" ">> \o DeclA

SchemaLines ==
    { NL, CommentLine \o NL, FUNCTIONS_MARKER \o NL, <<" ">> \o TYPES_MARKER \o NL,
      DeclA \o NL, <<" ">> \o DeclB \o NL, DeclNoResult \o NL, Malformed \o NL }

\* "a#2 x:int = U;": another declaration of the name a
DeclAOther == <<"a","#","2"," ","x",":","i","n","t"," ","="," ","U",";">>

ScrapeLines ==
    { FUNCTIONS_MARKER \o NL, DeclA \o NL, DeclB \o NL, DeclNoResult \o NL, DeclAOther \o NL }

SeqsUpTo(S, n) == UNION {[1..k -> S] : k \in 0..n}

PageField == [name |-> <<"x">>, type |-> <<"i","n","t">>, description |-> <<"d">>]

\* what a fetch can come back with: a documented page, a page with nothing useful
\* on it, a non-200 answer, a request error or timeout, an error while parsing
Pages ==
    { [raises |-> "no", status_code |-> 200, description |-> <<"d">>,
       fields |-> <<PageField>>, result_type |-> <<"T">>, raw_tl |-> DeclA],
      [raises |-> "no", status_code |-> 200, description |-> <<>>,
       fields |-> <<>>, result_type |-> <<>>, raw_tl |-> <<>>],
      [raises |-> "no", status_code |-> 404, description |-> <<>>,
       fields |-> <<>>, result_type |-> <<>>, raw_tl |-> <<>>],
      [raises |-> "RequestException", status_code |-> 0, description |-> <<>>,
       fields |-> <<>>, result_type |-> <<>>, raw_tl |-> <<>>],
      [raises |-> "Exception", status_code |-> 200, description |-> <<>>,
       fields |-> <<>>, result_type |-> <<>>, raw_tl |-> <<>>] }

\* a future whose call has not returned has no page yet
NoPage == [raises |-> "pending", status_code |-> 0, description |-> <<>>,
           fields |-> <<>>, result_type |-> <<>>, raw_tl |-> <<>>]

\* constructors and methods of the JSON document given to build_html_docs
MaxConstructors == 2

MaxMethods == 1

\* fields of the item given to generate_gogram_example
MaxFields == 9

\* fields of that item that are neither plain nor flags.N?-typed nor the header
MaxUnusual == 1

N_M == <<"n",".","M">>

VECTOR_M == VECTOR \o <<"<","M",">">>

\* message / Message, a namespaced ns.Message, and a name like no type
ConstructorNames == { <<"m">>, <<"M">>, N_M, <<"x">> }

\* a type, the same with a leading blank, a vector, the same with a leading blank,
\* and no result type
ResultTypes == { <<"M">>, <<" ","M">>, VECTOR_M, <<" ">> \o VECTOR_M, <<>> }

\* a method named like a type, a namespaced one whose local name is a type, and
\* one with two dots
MethodNames == { <<"M">>, N_M, <<"p",".">> \o N_M }

T_flags_0_int == FLAGS_DOT \o <<"0","?">> \o T_int

T_flags_12_true == FLAGS_DOT \o <<"1","2","?">> \o T_true

T_Vector_flags == VECTOR \o <<"<">> \o T_flags_0_int \o <<">">>

\* "x#1 flags:# n:flags.0?int = M;"
DeclWithHeader ==
    <<"x","#","1"," ">> \o FLAGS \o <<":">> \o HASH \o <<" ","n",":">> \o T_flags_0_int
    \o <<" ","="," ","M",";">>

\* the page of x: its parameter table has a row for flags and a row for n
PageWithHeaderRow ==
    [raises |-> "no", status_code |-> 200, description |-> <<"d">>,
     fields |-> << [name |-> FLAGS, type |-> HASH, description |-> <<"d">>],
                   [name |-> <<"n">>, type |-> T_flags_0_int, description |-> <<"d">>] >>,
     result_type |-> <<"M">>, raw_tl |-> DeclWithHeader]

\* the entry of x when its page cannot be fetched, and when it can
EntryFromSchema ==
    fetch_documentation(<<"x">>, "constructor",
                        load_schema_definitions(<<DeclWithHeader \o NL>>), NoPage)[1]

EntryFromPage ==
    fetch_documentation(<<"x">>, "constructor",
                        load_schema_definitions(<<DeclWithHeader \o NL>>), PageWithHeaderRow)[1]

\* what build_html_docs reads of an entry saved by scrape_all
ItemOf(entry) == [name |-> entry.name, fields |-> entry.fields, result_type |-> entry.result_type]

ConstructorItems ==
    { [name |-> n, fields |-> <<>>, result_type |-> r] : n \in ConstructorNames, r \in ResultTypes }
    \cup { ItemOf(EntryFromSchema), ItemOf(EntryFromPage) }

MethodItems == { [name |-> n, fields |-> <<>>, result_type |-> <<"M">>] : n \in MethodNames }

Documents ==
    { [constructors |-> cs, methods |-> ms] :
        cs \in SeqsUpTo(ConstructorItems, MaxConstructors),
        ms \in SeqsUpTo(MethodItems, MaxMethods) }

\* the decimal digits of k < 100
Decimal(k) ==
    IF k < 10 THEN <<DigitSeq[k + 1]>>
    ELSE <<DigitSeq[(k \div 10) + 1], DigitSeq[(k % 10) + 1]>>

\* the field at position k of a declaration: a plain field (int and long in turn)
PlainField(k) ==
    [name |-> <<"a">> \o Decimal(k), type |-> IF k % 2 = 1 THEN T_int ELSE T_long]

\* a field with the flags.N? marker
FlaggedField(k) ==
    [name |-> <<"o","_">> \o Decimal(k),
     type |-> IF k % 2 = 1 THEN T_flags_0_int ELSE T_flags_12_true]

\* the bit-field header flags:#
HeaderField == [name |-> FLAGS, type |-> HASH]

\* a type that holds "flags." and "?" but does not begin with flags.<digits>?,
\* a field named flags whose type is not '#', a '#' under another name
UnusualFields(k) ==
    { [name |-> <<"v">> \o Decimal(k), type |-> T_Vector_flags],
      [name |-> FLAGS, type |-> T_int],
      [name |-> <<"h">> \o Decimal(k), type |-> HASH] }

IsUnusual(field) == \E k \in 1..99 : field \in UnusualFields(k)

CountOf(fields, P(_)) == Cardinality({k \in DOMAIN fields : P(fields[k])})

\* parameter tokens of the declaration given to parse_tl_definition
MaxParams == 2

\* the declaration NAME '#' HEX PARAMS '=' RESULT_TYPE ';' in its parts; a part that
\* is <<>> is absent from the line
DeclNames == { <<"a">>, <<"b",".","c">>, <<>> }

DeclIds == { <<"#","1","f">>, <<"#">>, <<>> }

\* x:int, flags:#, n:flags.0?int, v:Vector<int>, q:!X, and the type parameter {X:Type}
ParamTokens ==
    { <<"x",":">> \o T_int,
      FLAGS \o <<":">> \o HASH,
      <<"n",":">> \o T_flags_0_int,
      <<"v",":">> \o VECTOR \o <<"<">> \o T_int \o <<">">>,
      <<"q",":","!","X">>,
      <<"{","X",":","T","y","p","e","}">> }

\* T, ns.T, Vector<User>, and no "= RESULT_TYPE"
DeclResults ==
    { <<"T">>, <<"n","s",".","T">>, VECTOR \o <<"<","U","s","e","r",">">>, <<>> }

Declarations ==
    { [name |-> n, id |-> h, params |-> ps, result |-> r] :
        n \in DeclNames, h \in DeclIds, ps \in SeqsUpTo(ParamTokens, MaxParams),
        r \in DeclResults }

\* the line of schema.tl that the parts make
DeclLine(d) ==
    d.name \o d.id
    \o Concat([k \in DOMAIN d.params |-> <<" ">> \o d.params[k]])
    \o (IF d.result # <<>> THEN <<" ","="," ">> \o d.result ELSE <<>>)
    \o <<";">>

\* characters of the name given to to_go_name
MaxNameLen == 4

\* a lower-case letter, an upper-case letter, a digit, the two separators and a
\* character that is none of these
NameAlphabet == {"a", "B", "1", ".", "_", "!"}

Names == SeqsUpTo(NameAlphabet, MaxNameLen)

\* type names given to get_type_example: the primitives, keys of the two tables,
\* types of neither table (capitalized, lower-case, namespaced, holding "string"),
\* the empty string, '#' and '!X'
TypeNames ==
    { T_string, T_int, T_int32, T_long, T_int64, T_double, T_bytes, T_Bool, T_true,
      InputPeer, InputUser, Chat, InputFile, InputPeerUser, InputUserSelf,
      <<"F","o","o">>, <<"f","o","o">>, <<"n","s",".","F","o","o">>,
      <<"S","u","b">> \o T_string, <<>>, HASH, <<"!","X">> }

\* each of them bare and as Vector<...>, with and without the flags.N? prefix
FieldTypes ==
    { p \o t : p \in {<<>>, FLAGS_DOT \o <<"0","?">>},
               t \in TypeNames \cup { VECTOR \o <<"<">> \o n \o <<">">> : n \in TypeNames } }

TypeExampleCalls ==
    [field_type : FieldTypes, include_comment : BOOLEAN, expand_struct : BOOLEAN]

(***************************************************************************)
(* State                                                                   *)
(***************************************************************************)
VARIABLES
    pc,                     \* where the running function is
    schema,                 \* the lines of the schema file (read so far)
    constructors,           \* parse_schema_file / scrape_all: constructor names
    methods,                \* parse_schema_file / scrape_all: method names
    is_functions_section,   \* parse_schema_file
    schema_definitions,     \* scrape_all
    tasks,                  \* scrape_all: (name, category) in submission order
    futures,                \* scrape_all: future_to_task, one future per task
    results,                \* scrape_all
    completed,              \* scrape_all
    failed,                 \* scrape_all
    data,                   \* build_html_docs: the loaded JSON document
    type_map,               \* build_html_docs / generate_gogram_example
    idx,                    \* build_html_docs: the position in the running loop
    written,                \* build_html_docs: the pages written, in order
    item,                   \* generate_gogram_example
    category,               \* generate_gogram_example
    required_params,        \* generate_gogram_example
    optional_params,        \* generate_gogram_example
    example,                \* generate_gogram_example
    input,                  \* a function called on its own: its argument
    output                  \* a function called on its own: what it returned

vars == <<pc, schema, constructors, methods, is_functions_section, schema_definitions,
          tasks, futures, results, completed, failed,
          data, type_map, idx, written,
          item, category, required_params, optional_params, example,
          input, output>>

callVars == <<input, output>>

buildVars == <<data, idx, written>>

exampleVars == <<item, category, required_params, optional_params, example>>

htmlVars == <<buildVars, type_map, exampleVars>>

parserVars == <<constructors, methods, is_functions_section>>

scrapeVars == <<schema_definitions, tasks, futures, results, completed, failed>>

NoExample ==
    [template |-> "", go_name |-> <<>>, args |-> <<>>, params_lines |-> <<>>, go_result |-> <<>>]

NoItem == [name |-> <<>>, fields |-> <<>>, result_type |-> <<>>]

ExampleIdle ==
    /\ item = NoItem
    /\ category = ""
    /\ required_params = <<>>
    /\ optional_params = <<>>
    /\ example = NoExample

BuildIdle ==
    /\ data = [constructors |-> <<>>, methods |-> <<>>]
    /\ idx = 0
    /\ written = <<>>

HtmlIdle == BuildIdle /\ type_map = <<>> /\ ExampleIdle

\* no function is called on its own
CallIdle == input = <<>> /\ output = <<>>

ParserIdle ==
    /\ schema = <<>>
    /\ constructors = <<>>
    /\ methods = <<>>
    /\ is_functions_section = FALSE

ScrapeIdle ==
    /\ schema_definitions = EmptyDict
    /\ tasks = <<>>
    /\ futures = <<>>
    /\ results = [constructors |-> <<>>, methods |-> <<>>]
    /\ completed = 0
    /\ failed = 0

(***************************************************************************)
(* parse_schema_file, line by line                                         *)
(***************************************************************************)
InitSchema ==
    /\ pc = "parse_schema_file"
    /\ schema = <<>>
    /\ constructors = ParseStart.constructors
    /\ methods = ParseStart.methods
    /\ is_functions_section = ParseStart.is_functions_section
    /\ ScrapeIdle
    /\ HtmlIdle
    /\ CallIdle

ReadLine ==
    /\ pc = "parse_schema_file"
    /\ Len(schema) < MaxLines
    /\ \E raw \in SchemaLines :
          LET st == ParseLine([constructors |-> constructors, methods |-> methods,
                               is_functions_section |-> is_functions_section], raw)
          IN  /\ schema' = Append(schema, raw)
              /\ constructors' = st.constructors
              /\ methods' = st.methods
              /\ is_functions_section' = st.is_functions_section
    /\ UNCHANGED <<pc, scrapeVars, htmlVars, callVars>>

NextSchema == ReadLine

SpecSchema == InitSchema /\ [][NextSchema]_vars

(***************************************************************************)
(* scrape_all                                                              *)
(***************************************************************************)
InitScrape ==
    /\ pc = "start"
    /\ schema \in SeqsUpTo(ScrapeLines, MaxSchemaLines)
    /\ constructors = <<>>
    /\ methods = <<>>
    /\ is_functions_section = FALSE
    /\ ScrapeIdle
    /\ HtmlIdle
    /\ CallIdle

\* constructors, methods = parse_schema_file(schema_path)
ParseSchema ==
    /\ pc = "start"
    /\ LET st == parse_schema_file(schema)
       IN  /\ constructors' = st.constructors
           /\ methods' = st.methods
           /\ is_functions_section' = st.is_functions_section
    /\ pc' = "load"
    /\ UNCHANGED <<schema, scrapeVars, htmlVars, callVars>>

\* schema_definitions = load_schema_definitions(schema_path)
LoadDefinitions ==
    /\ pc = "load"
    /\ schema_definitions' = load_schema_definitions(schema)
    /\ pc' = "submit"
    /\ UNCHANGED <<schema, parserVars, tasks, futures, results, completed, failed, htmlVars, callVars>>

TaskList(cs, ms) ==
    [k \in DOMAIN cs |-> [name |-> cs[k], category |-> "constructor"]]
    \o [k \in DOMAIN ms |-> [name |-> ms[k], category |-> "method"]]

\* the task list, the results dict, the counters, and executor.submit for every task
Submit ==
    /\ pc = "submit"
    /\ tasks' = TaskList(constructors, methods)
    /\ futures' = [k \in DOMAIN tasks' |-> [state |-> "pending", page |-> NoPage, result |-> NoEntry,
                                           exception |-> FALSE]]
    /\ results' = [constructors |-> <<>>, methods |-> <<>>,
                   metadata |-> [total_constructors |-> Len(constructors),
                                 total_methods |-> Len(methods)]]
    /\ completed' = 0
    /\ failed' = 0
    /\ pc' = "as_completed"
    /\ UNCHANGED <<schema, parserVars, schema_definitions, htmlVars, callVars>>

Running == {k \in DOMAIN futures : futures[k].state = "running"}

\* a free worker of the pool takes the oldest queued call
StartTask(k) ==
    /\ pc = "as_completed"
    /\ futures[k].state = "pending"
    /\ \A j \in 1..(k - 1) : futures[j].state # "pending"
    /\ Cardinality(Running) < MaxWorkers
    /\ futures' = [futures EXCEPT ![k].state = "running"]
    /\ UNCHANGED <<pc, schema, parserVars, schema_definitions, tasks, results, completed, failed, htmlVars, callVars>>

\* the worker's call of fetch_documentation returns
FinishTask(k, page) ==
    /\ pc = "as_completed"
    /\ futures[k].state = "running"
    /\ futures' = [futures EXCEPT ![k] =
                     [state  |-> "finished",
                      page   |-> page,
                      result |-> fetch_documentation(tasks[k].name, tasks[k].category,
                                                     schema_definitions, page),
                      exception |-> FALSE]]
    /\ UNCHANGED <<pc, schema, parserVars, schema_definitions, tasks, results, completed, failed, htmlVars, callVars>>

\* fetches after which an except clause of fetch_documentation runs
HandledPages == {page \in Pages : page.raises # "no"}

\* the worker's call of fetch_documentation raises: an exception leaves one of its
\* except clauses, and the future holds it for future.result()
RaiseTask(k, page) ==
    /\ pc = "as_completed"
    /\ futures[k].state = "running"
    /\ futures' = [futures EXCEPT ![k] =
                     [state |-> "finished", page |-> page, result |-> NoEntry, exception |-> TRUE]]
    /\ UNCHANGED <<pc, schema, parserVars, schema_definitions, tasks, results, completed, failed, htmlVars, callVars>>

\* a loop body that files every entry under constructors
CollectedAsConstructor(res, cat, entry) ==
    IF entry = NoEntry THEN res ELSE [res EXCEPT !.constructors = Append(@, entry[1])]

\* what one iteration of "for future in as_completed(future_to_task)" does to results
Collected(res, cat, entry) ==
    IF entry = NoEntry THEN res
    ELSE IF cat = "constructor"
    THEN [res EXCEPT !.constructors = Append(@, entry[1])]
    ELSE [res EXCEPT !.methods = Append(@, entry[1])]

\* a loop that an exception of future.result() ends
CollectUntilException(k) ==
    /\ pc = "as_completed"
    /\ futures[k].state = "finished"
    /\ futures' = [futures EXCEPT ![k].state = "consumed"]
    /\ completed' = completed + 1
    /\ results' = IF futures[k].exception THEN results
                   ELSE Collected(results, tasks[k].category, futures[k].result)
    /\ failed' = IF futures[k].result = NoEntry THEN failed + 1 ELSE failed
    /\ pc' = IF futures[k].exception THEN "raised" ELSE pc
    /\ UNCHANGED <<schema, parserVars, schema_definitions, tasks, htmlVars, callVars>>

\* as_completed yields a finished future; the body of the loop
Collect(k) ==
    /\ pc = "as_completed"
    /\ futures[k].state = "finished"
    /\ futures' = [futures EXCEPT ![k].state = "consumed"]
    /\ completed' = completed + 1
    /\ results' = IF futures[k].exception THEN results
                   ELSE Collected(results, tasks[k].category, futures[k].result)
    /\ failed' = IF futures[k].exception \/ futures[k].result = NoEntry THEN failed + 1 ELSE failed
    /\ UNCHANGED <<pc, schema, parserVars, schema_definitions, tasks, htmlVars, callVars>>

\* as_completed is exhausted: the metadata is updated and the JSON written
Save ==
    /\ pc = "as_completed"
    /\ \A k \in DOMAIN futures : futures[k].state = "consumed"
    /\ results' = [constructors |-> results.constructors,
                   methods |-> results.methods,
                   metadata |-> [total_constructors |-> results.metadata.total_constructors,
                                 total_methods |-> results.metadata.total_methods,
                                 successful |-> Len(results.constructors) + Len(results.methods),
                                 failed |-> failed]]
    /\ pc' = "saved"
    /\ UNCHANGED <<schema, parserVars, schema_definitions, tasks, futures, completed, failed, htmlVars, callVars>>

NextScrape ==
    \/ ParseSchema
    \/ LoadDefinitions
    \/ Submit
    \/ \E k \in DOMAIN futures : StartTask(k)
    \/ \E k \in DOMAIN futures : \E page \in Pages : FinishTask(k, page)
    \/ \E k \in DOMAIN futures : \E page \in HandledPages : RaiseTask(k, page)
    \/ \E k \in DOMAIN futures : Collect(k)
    \/ Save

SpecScrape == InitScrape /\ [][NextScrape]_vars

(***************************************************************************)
(* build_html_docs: the type map, then the pages                           *)
(***************************************************************************)
Phases == <<"type_map", "lists", "types", "constructors", "methods", "done">>

\* the number of iterations of each loop of build_html_docs
PhaseSize(n, d, tm) ==
    CASE Phases[n] = "type_map"     -> Len(d.constructors)
      [] Phases[n] = "lists"        -> 1
      [] Phases[n] = "types"        -> Len(tm)
      [] Phases[n] = "constructors" -> Len(d.constructors)
      [] Phases[n] = "methods"      -> Len(d.methods)
      [] OTHER                      -> 1

RECURSIVE FirstPhaseFrom(_, _, _)
FirstPhaseFrom(n, d, tm) ==
    IF PhaseSize(n, d, tm) > 0 THEN n ELSE FirstPhaseFrom(n + 1, d, tm)

PhaseNumber(phase) == CHOOSE n \in DOMAIN Phases : Phases[n] = phase

\* where the function is after iteration i of the loop `phase`: <<pc, idx>>
AfterStep(phase, i, d, tm) ==
    IF i < PhaseSize(PhaseNumber(phase), d, tm)
    THEN <<phase, i + 1>>
    ELSE <<Phases[FirstPhaseFrom(PhaseNumber(phase) + 1, d, tm)], 1>>

Page(path, kind, name, cat, rows, ex) ==
    [path |-> path, page |-> kind, name |-> name, category |-> cat, rows |-> rows, example |-> ex]

INDEX_HTML == <<"i","n","d","e","x">> \o DOT_HTML

CONSTRUCTORS_HTML == CategoryText("constructor") \o <<"s">> \o DOT_HTML

METHODS_HTML == CategoryText("method") \o <<"s">> \o DOT_HTML

TYPES_HTML == <<"t","y","p","e","s">> \o DOT_HTML

TypePagePath(type_name) == <<"t","y","p","e","s","/">> \o type_name \o DOT_HTML

\* the parameters table and the example of generate_detail_page
generate_detail_page(it, cat, tm) ==
    Page(get_output_path(it.name, cat), "detail", it.name, cat, it.fields,
         generate_gogram_example(it, cat, tm))

InitBuild ==
    /\ data \in Documents
    /\ type_map = <<>>
    /\ pc = Phases[FirstPhaseFrom(1, data, <<>>)]
    /\ idx = 1
    /\ written = <<>>
    /\ ExampleIdle
    /\ ParserIdle
    /\ ScrapeIdle
    /\ CallIdle

\* "for item in constructors": type_map
TypeMapStep ==
    /\ pc = "type_map"
    /\ type_map' = TypeMapAdd(type_map, data.constructors[idx])
    /\ pc' = AfterStep(pc, idx, data, type_map')[1]
    /\ idx' = AfterStep(pc, idx, data, type_map')[2]
    /\ UNCHANGED <<data, written, exampleVars, schema, parserVars, scrapeVars, callVars>>

\* a type page that empties the constructor list of its type while it is written
WriteTypePageConsuming ==
    /\ pc = "types"
    /\ written' = Append(written, Page(TypePagePath(type_map[idx].key), "type",
                                       type_map[idx].key, "", <<>>, NoExample))
    /\ type_map' = [type_map EXCEPT ![idx].value = <<>>]
    /\ pc' = AfterStep(pc, idx, data, type_map)[1]
    /\ idx' = AfterStep(pc, idx, data, type_map)[2]
    /\ UNCHANGED <<data, exampleVars, schema, parserVars, scrapeVars, callVars>>

\* index.html, constructors.html, methods.html, types.html
WriteLists ==
    /\ pc = "lists"
    /\ written' = written \o
          << Page(INDEX_HTML, "index", <<>>, "", <<>>, NoExample),
             Page(CONSTRUCTORS_HTML, "list", <<>>, "constructor", <<>>, NoExample),
             Page(METHODS_HTML, "list", <<>>, "method", <<>>, NoExample),
             Page(TYPES_HTML, "types", <<>>, "", <<>>, NoExample) >>
    /\ pc' = AfterStep(pc, idx, data, type_map)[1]
    /\ idx' = AfterStep(pc, idx, data, type_map)[2]
    /\ UNCHANGED <<data, type_map, exampleVars, schema, parserVars, scrapeVars, callVars>>

\* "for type_name, type_constructors in type_map.items()"
WriteTypePage ==
    /\ pc = "types"
    /\ written' = Append(written, Page(TypePagePath(type_map[idx].key), "type",
                                       type_map[idx].key, "", <<>>, NoExample))
    /\ pc' = AfterStep(pc, idx, data, type_map)[1]
    /\ idx' = AfterStep(pc, idx, data, type_map)[2]
    /\ UNCHANGED <<data, type_map, exampleVars, schema, parserVars, scrapeVars, callVars>>

\* "for i, item in enumerate(constructors)"
WriteConstructorPage ==
    /\ pc = "constructors"
    /\ written' = Append(written, generate_detail_page(data.constructors[idx], "constructor", type_map))
    /\ pc' = AfterStep(pc, idx, data, type_map)[1]
    /\ idx' = AfterStep(pc, idx, data, type_map)[2]
    /\ UNCHANGED <<data, type_map, exampleVars, schema, parserVars, scrapeVars, callVars>>

\* "for i, item in enumerate(methods)"
WriteMethodPage ==
    /\ pc = "methods"
    /\ written' = Append(written, generate_detail_page(data.methods[idx], "method", type_map))
    /\ pc' = AfterStep(pc, idx, data, type_map)[1]
    /\ idx' = AfterStep(pc, idx, data, type_map)[2]
    /\ UNCHANGED <<data, type_map, exampleVars, schema, parserVars, scrapeVars, callVars>>

NextBuild ==
    \/ TypeMapStep
    \/ WriteLists
    \/ WriteTypePage
    \/ WriteConstructorPage
    \/ WriteMethodPage

SpecBuild == InitBuild /\ [][NextBuild]_vars

(***************************************************************************)
(* generate_gogram_example, field by field                                 *)
(***************************************************************************)
\* the field that can stand at position k of item['fields'] after `fields`
NextFields(fields, k) ==
    {PlainField(k), FlaggedField(k)}
    \cup (IF k = 1 THEN {HeaderField} ELSE {})
    \cup (IF CountOf(fields, IsUnusual) < MaxUnusual THEN UnusualFields(k) ELSE {})

\* the two lists the loop fills
Params == [required_params |-> required_params, optional_params |-> optional_params]

InitExample ==
    /\ pc = "for field in fields"
    /\ category \in {"method", "constructor"}
    /\ item = [name |-> <<"x">>, fields |-> <<>>, result_type |-> <<"M">>]
    /\ type_map = <<>>
    /\ required_params = NoParams.required_params
    /\ optional_params = NoParams.optional_params
    /\ example = NoExample
    /\ BuildIdle
    /\ ParserIdle
    /\ ScrapeIdle
    /\ CallIdle

\* one iteration of "for field in fields", on the next field of the item
ClassifyField ==
    /\ pc = "for field in fields"
    /\ Len(item.fields) < MaxFields
    /\ \E field \in NextFields(item.fields, Len(item.fields) + 1) :
          /\ item' = [item EXCEPT !.fields = Append(@, field)]
          /\ required_params' = AddParam(Params, field, category).required_params
          /\ optional_params' = AddParam(Params, field, category).optional_params
    /\ UNCHANGED <<pc, category, type_map, example, buildVars, schema, parserVars, scrapeVars, callVars>>

\* the fields are exhausted: the example text is put together and returned
Synthesize ==
    /\ pc = "for field in fields"
    /\ example' = BuildExample(category, ExampleName(item.name, category, type_map),
                               Params, item.result_type)
    /\ pc' = "return example"
    /\ UNCHANGED <<item, category, type_map, required_params, optional_params,
                   buildVars, schema, parserVars, scrapeVars, callVars>>

NextExample == ClassifyField \/ Synthesize

SpecExample == InitExample /\ [][NextExample]_vars

(***************************************************************************)
(* parse_tl_definition called on one declaration                           *)
(***************************************************************************)
InitDefinition ==
    /\ pc = "parse_tl_definition"
    /\ input \in Declarations
    /\ output = <<>>
    /\ HtmlIdle
    /\ ParserIdle
    /\ ScrapeIdle

\* name, fields, result_type = parse_tl_definition(line)
ParseDefinition ==
    /\ pc = "parse_tl_definition"
    /\ output' = parse_tl_definition(DeclLine(input))
    /\ pc' = "return name, fields, result_type"
    /\ UNCHANGED <<input, htmlVars, schema, parserVars, scrapeVars>>

NextDefinition == ParseDefinition

SpecDefinition == InitDefinition /\ [][NextDefinition]_vars

(***************************************************************************)
(* get_type_example and to_go_name called on one argument                  *)
(***************************************************************************)
InitTypeExample ==
    /\ pc = "get_type_example"
    /\ input \in TypeExampleCalls
    /\ output = <<>>
    /\ HtmlIdle
    /\ ParserIdle
    /\ ScrapeIdle

GetTypeExample ==
    /\ pc = "get_type_example"
    /\ output' = get_type_example(input.field_type, input.include_comment,
                                  input.expand_struct)
    /\ pc' = "return example value"
    /\ UNCHANGED <<input, htmlVars, schema, parserVars, scrapeVars>>

NextTypeExample == GetTypeExample

SpecTypeExample == InitTypeExample /\ [][NextTypeExample]_vars

InitGoName ==
    /\ pc = "to_go_name"
    /\ input \in Names
    /\ output = <<>>
    /\ HtmlIdle
    /\ ParserIdle
    /\ ScrapeIdle

ToGoName ==
    /\ pc = "to_go_name"
    /\ output' = to_go_name(input)
    /\ pc' = "return go name"
    /\ UNCHANGED <<input, htmlVars, schema, parserVars, scrapeVars>>

NextGoName == ToGoName

SpecGoName == InitGoName /\ [][NextGoName]_vars

\* scrape_all from the submission of the tasks on: the schema is parsed and the
\* definitions are loaded
InitPool ==
    /\ pc = "submit"
    /\ schema \in SeqsUpTo(ScrapeLines, MaxSchemaLines)
    /\ constructors = parse_schema_file(schema).constructors
    /\ methods = parse_schema_file(schema).methods
    /\ is_functions_section = parse_schema_file(schema).is_functions_section
    /\ schema_definitions = load_schema_definitions(schema)
    /\ tasks = <<>>
    /\ futures = <<>>
    /\ results = [constructors |-> <<>>, methods |-> <<>>]
    /\ completed = 0
    /\ failed = 0
    /\ HtmlIdle
    /\ CallIdle

NextPool ==
    \/ Submit
    \/ \E k \in DOMAIN futures : StartTask(k)
    \/ \E k \in DOMAIN futures : \E page \in Pages : FinishTask(k, page)
    \/ \E k \in DOMAIN futures : \E page \in HandledPages : RaiseTask(k, page)
    \/ \E k \in DOMAIN futures : Collect(k)
    \/ Save

\* a fair scheduler: the main thread takes its next step, a free worker of the
\* pool takes a queued call, a running call returns or raises (requests.get has
\* timeout=30), and as_completed yields a finished future
Fairness ==
    /\ WF_vars(Submit)
    /\ WF_vars(\E k \in DOMAIN futures : StartTask(k))
    /\ WF_vars(\E k \in DOMAIN futures :
                  \/ \E page \in Pages : FinishTask(k, page)
                  \/ \E page \in HandledPages : RaiseTask(k, page))
    /\ WF_vars(\E k \in DOMAIN futures : Collect(k))
    /\ WF_vars(Save)

SpecScrapeFair == InitPool /\ [][NextPool]_vars /\ Fairness

(***************************************************************************)
(* Claims about the scraper                                                *)
(***************************************************************************)
IsMarkerLine(raw) == Strip(raw) \in {FUNCTIONS_MARKER, TYPES_MARKER}

IsDeclarationLine(raw) == SchemaName(Strip(raw)) # <<>>

\* the most recent section marker before line i is ---functions---
AfterFunctionsMarker(i) ==
    \E j \in 1..(i - 1) :
        /\ Strip(schema[j]) = FUNCTIONS_MARKER
        /\ \A m \in (j + 1)..(i - 1) : ~IsMarkerLine(schema[m])

\* the names declared on the lines of S, in the order of the file, from line i on
RECURSIVE DeclaredNames(_, _)
DeclaredNames(i, S) ==
    IF i > Len(schema) THEN <<>>
    ELSE (IF i \in S THEN <<SchemaName(Strip(schema[i]))>> ELSE <<>>) \o DeclaredNames(i + 1, S)

\* C1: a declaration is listed as a method if and only if the most recent section
\* marker before it is ---functions---; with no marker before it, or ---types--- the
\* most recent one, it is listed as a constructor, for any number and order of markers.
C1_MethodIffAfterFunctionsMarker ==
    LET decls == {i \in DOMAIN schema : IsDeclarationLine(schema[i])}
    IN  /\ methods = DeclaredNames(1, {i \in decls : AfterFunctionsMarker(i)})
        /\ constructors = DeclaredNames(1, {i \in decls : ~AfterFunctionsMarker(i)})

\* a declaration in the function section, then ---types---, then another declaration
C1_Witness ==
    \E i, j, k, l \in DOMAIN schema :
        /\ i < j /\ j < k /\ k < l
        /\ Strip(schema[i]) = FUNCTIONS_MARKER
        /\ IsDeclarationLine(schema[j])
        /\ Strip(schema[k]) = TYPES_MARKER
        /\ IsDeclarationLine(schema[l])
        /\ methods # <<>>
        /\ constructors # <<>>

\* a is b with some elements left out
RECURSIVE IsSubsequence(_, _)
IsSubsequence(a, b) ==
    IF a = <<>> THEN TRUE
    ELSE IF b = <<>> THEN FALSE
    ELSE IF Head(a) = Head(b) THEN IsSubsequence(Tail(a), Tail(b))
    ELSE IsSubsequence(a, Tail(b))

EntryNames(entries) == [k \in DOMAIN entries |-> entries[k].name]

\* C2: in the model scrape_all writes, the constructors list and the methods list
\* hold their entities in schema declaration order, whatever the order in which the
\* fetch workers complete.
C2_ListsInDeclarationOrder ==
    pc = "saved" =>
        /\ IsSubsequence(EntryNames(results.constructors), constructors)
        /\ IsSubsequence(EntryNames(results.methods), methods)

FetchFailed(page) ==
    page.raises \in {"RequestException", "Exception"} \/ page.status_code # 200

ResultList(cat) ==
    IF cat = "constructor" THEN results.constructors ELSE results.methods

\* the entry is the schema-only data of a line of the schema that declares the name
FromSchemaOnly(entry, name) ==
    /\ entry.description = <<>>
    /\ \E i \in DOMAIN schema :
          /\ SchemaName(Strip(schema[i])) = name
          /\ entry.raw_tl = Strip(schema[i])

\* C3: for every entity the schema loader lists, whichever way its fetch fails
\* (non-200 status, request error or timeout, page-parsing error), the output holds
\* an entry for it built from schema-only data; and a failed fetch keeps no other
\* entity from being processed.
C3_FailedFetchFallsBackToSchema ==
    pc = "saved" =>
        /\ completed = Len(tasks)
        /\ \A t \in DOMAIN tasks :
              FetchFailed(futures[t].page) =>
                 \E k \in DOMAIN ResultList(tasks[t].category) :
                    LET entry == ResultList(tasks[t].category)[k]
                    IN  /\ entry.name = tasks[t].name
                        /\ entry.category = tasks[t].category
                        /\ FromSchemaOnly(entry, tasks[t].name)

(***************************************************************************)
(* Claims about the type graph and the display name                        *)
(***************************************************************************)
TypeMapBuilt == pc \in {"lists", "types", "constructors", "methods", "done"}

WithResultType(R) == SelectSeq(data.constructors, LAMBDA c : c.result_type = R)

\* a result type the type graph has a key for: non-empty, not Vector-prefixed
Keyed(R) == R # <<>> /\ ~StartsWith(R, VECTOR)

\* C4: once the type graph is built from the constructor list, every non-empty
\* result type R that does not start with Vector is a key, the list under a key R is
\* exactly the constructors whose result type is R in declaration order, and there
\* is no other key (so a constructor without such a result type is under no key
\* and no constructor is listed twice).
C4_KeyHoldsConstructorsOfThatResultType ==
    TypeMapBuilt =>
        /\ \A n \in DOMAIN data.constructors :
              Keyed(data.constructors[n].result_type)
                 => HasKey(type_map, data.constructors[n].result_type)
        /\ \A n \in DOMAIN type_map :
              /\ Keyed(type_map[n].key)
              /\ type_map[n].value = WithResultType(type_map[n].key)
        /\ \A n, m \in DOMAIN type_map : type_map[n].key = type_map[m].key => n = m

\* C5: no key of the type graph begins with Vector, and every entity listed under a
\* key has a result type equal to that key, whatever blanks the result types carry.
C5_KeysAreResultTypesAndNeverVectors ==
    \A n \in DOMAIN type_map :
        /\ ~StartsWith(type_map[n].key, VECTOR)
        /\ \A k \in DOMAIN type_map[n].value :
              type_map[n].value[k].result_type = type_map[n].key

ConstructorPages ==
    {n \in DOMAIN written : written[n].page = "detail" /\ written[n].category = "constructor"}

\* the mangled name is the mangled name of some key of the type graph
Collides(name) == \E n \in DOMAIN type_map : to_go_name(type_map[n].key) = to_go_name(name)

\* C6: a constructor whose mangled name equals the mangled name of a key of the type
\* graph is named, in its generated example, by the mangled name followed by Obj.
C6_CollidingConstructorGetsObjSuffix ==
    \A n \in ConstructorPages :
        Collides(written[n].name)
            => written[n].example.go_name = to_go_name(written[n].name) \o OBJ

\* C7: a constructor whose mangled name equals the mangled name of no key of the
\* type graph (a namespaced one whose local part is a key included) is named, in
\* its generated example, by the mangled name alone.
C7_OtherConstructorKeepsMangledName ==
    \A n \in ConstructorPages :
        ~Collides(written[n].name)
            => written[n].example.go_name = to_go_name(written[n].name)

(***************************************************************************)
(* Claims about the synthesized example                                    *)
(***************************************************************************)
\* the bit-field header: named flags, of raw type '#'
IsHeader(field) == field.name = FLAGS /\ field.type = HASH

\* the raw type begins with flags.<digits>?
HasOptionalMarker(field_type) ==
    /\ StartsWith(field_type, FLAGS_DOT)
    /\ RunLen(field_type, Len(FLAGS_DOT) + 1, Digit) > 0
    /\ Len(field_type) > Len(FLAGS_DOT) + RunLen(field_type, Len(FLAGS_DOT) + 1, Digit)
    /\ field_type[Len(FLAGS_DOT) + RunLen(field_type, Len(FLAGS_DOT) + 1, Digit) + 1] = "?"

RequiredFields(fields) ==
    SelectSeq(fields, LAMBDA f : ~IsHeader(f) /\ ~HasOptionalMarker(f.type))

OptionalFields(fields) ==
    SelectSeq(fields, LAMBDA f : ~IsHeader(f) /\ HasOptionalMarker(f.type))

ExampleValue(field) == get_type_example(field.type, FALSE, TRUE)

ElisionMarkers ==
    { Lit("    // ..."), Lit("    // ... more required fields"),
      Lit("    // ... more optional fields") }

ELISION == Lit("...")

\* the lines of the structured form that list a field or elide some: the blank line
\* and the "Optional fields" heading left out, an elision marker of either wording
\* written ELISION
ListedLines(params_lines) ==
    LET kept == SelectSeq(params_lines, LAMBDA l : l # BlankLine /\ l # OptionalHeader)
    IN  [k \in DOMAIN kept |-> IF kept[k] \in ElisionMarkers THEN ELISION ELSE kept[k]]

\* min(r, shown_r) required fields, ELISION iff r > shown_r, then min(o, shown_o)
\* optional fields commented out, ELISION iff o > shown_o
TruncatedListing(fields, shown_r, shown_o) ==
    LET req == RequiredFields(fields)
        opt == OptionalFields(fields)
        r   == IF Len(req) < shown_r THEN Len(req) ELSE shown_r
        o   == IF Len(opt) < shown_o THEN Len(opt) ELSE shown_o
    IN  [k \in 1..r |-> RequiredLine(<<to_go_name(req[k].name), ExampleValue(req[k])>>)]
        \o (IF Len(req) > shown_r THEN <<ELISION>> ELSE <<>>)
        \o [k \in 1..o |-> OptionalLine(<<to_go_name(opt[k].name), ExampleValue(opt[k])>>)]
        \o (IF Len(opt) > shown_o THEN <<ELISION>> ELSE <<>>)

Returned(cat) == pc = "return example" /\ category = cat

\* C8: the example of a method is the positional form iff the method has at most 5
\* required (not optional, not header) fields and no optional field, its arguments
\* then being the example values of the required fields in declaration order;
\* otherwise it is the Params form.  No fields: positional, no arguments.
C8_PositionalIffFewRequiredAndNoOptional ==
    Returned("method") =>
        LET req == RequiredFields(item.fields)
            opt == OptionalFields(item.fields)
        IN  IF Len(req) <= 5 /\ Len(opt) = 0
            THEN /\ example.template = "positional arguments"
                 /\ example.args = [k \in DOMAIN req |-> ExampleValue(req[k])]
            ELSE example.template = "using Params struct"

\* C9: a method rendered in the Params form with r required and o optional fields
\* lists min(r, 8) required fields in declaration order, an elision marker after
\* them iff r > 8, then min(o, 4) optional fields as commented-out lines in
\* declaration order, an elision marker after them iff o > 4.
C9_ParamsFormListsEightAndFour ==
    (Returned("method") /\ example.template = "using Params struct")
        => ListedLines(example.params_lines) = TruncatedListing(item.fields, 8, 4)

\* C10: the example of a constructor is a struct literal whatever its fields, never
\* a positional call, and lists min(r, 6) required fields (elision marker iff r > 6)
\* then min(o, 4) optional fields commented out (elision marker iff o > 4).
C10_ConstructorLiteralListsSixAndFour ==
    Returned("constructor") =>
        /\ example.template = "constructor"
        /\ example.args = <<>>
        /\ ListedLines(example.params_lines) = TruncatedListing(item.fields, 6, 4)

\* the fields of the displayable field list: all but the flags:# header
DisplayableFields(fields) == SelectSeq(fields, LAMBDA f : ~IsHeader(f))

\* what the example shows of the fields: the arguments of the positional form, or
\* the lines of the structured form that list a field
SurfacedEntries ==
    example.args
    \o SelectSeq(example.params_lines,
                 LAMBDA l : l # BlankLine /\ l # OptionalHeader /\ l \notin ElisionMarkers)

\* the entry is the argument or the line the example writes for the field
Surfaces(entry, field) ==
    LET p == <<to_go_name(field.name), ExampleValue(field)>>
    IN  entry \in {ExampleValue(field), RequiredLine(p), OptionalLine(p)}

CollectedParams == Range(required_params) \cup Range(optional_params)

\* C12: example synthesis leaves a field out as a bit-field header exactly when the
\* field is named flags and has the raw type '#'; a field named flags of another
\* type, and a '#' under another name, is collected like any data field.
C12_HeaderIsFlagsNameAndHashType ==
    \A k \in DOMAIN item.fields :
        (ParamOf(item.fields[k], category) \notin CollectedParams)
            <=> IsHeader(item.fields[k])

\* the remainder of the raw type after flags.<digits>?
EffectiveType(field_type) ==
    IF HasOptionalMarker(field_type)
    THEN From(field_type, Len(FLAGS_DOT) + RunLen(field_type, Len(FLAGS_DOT) + 1, Digit) + 2)
    ELSE field_type

\* C17: a field that example synthesis collects is classed optional iff its raw
\* type begins with flags.<digits>? (holding "flags." and "?" elsewhere does not
\* make it optional), and its example value is that of its effective type, the
\* remainder of the raw type after the prefix.
C17_OptionalIffTypeBeginsWithFlagsMarker ==
    \A k \in DOMAIN item.fields :
        LET field == item.fields[k]
        IN  ~SkippedField(field) =>
                /\ (ParamOf(field, category) \in Range(optional_params))
                      <=> HasOptionalMarker(field.type)
                /\ (ParamOf(field, category) \in Range(required_params))
                      <=> ~HasOptionalMarker(field.type)
                /\ ParamOf(field, category)[2]
                      = get_type_example(EffectiveType(field.type), FALSE, TRUE)

DetailPages == {n \in DOMAIN written : written[n].page = "detail"}

\* C13: the parameters table of a detail page has no row for a header field (name
\* flags, type '#'), whether the entity's fields came from the schema parser or
\* from the parameter table of its page.
C13_ParametersTableHasNoHeaderRow ==
    \A n \in DetailPages :
        \A k \in DOMAIN written[n].rows : ~IsHeader(written[n].rows[k])

(***************************************************************************)
(* Claims about parse_tl_definition                                        *)
(***************************************************************************)
Parsed == pc = "return name, fields, result_type"

\* the line begins NAME '#' HEX
BeginsNameIdHex(line) ==
    LET n == IF line # <<>> /\ line[1] \in NameStart THEN RunLen(line, 1, NameDot) ELSE 0
    IN  n > 0 /\ n + 2 <= Len(line) /\ line[n + 1] = "#" /\ line[n + 2] \in HexDigit

\* C14: parse_tl_definition reports a parse failure (no name) only for a line that
\* does not begin NAME '#' HEX; a line that does begin so yields an entity, with an
\* empty field list when its parameter list cannot be parsed.
C14_FailureOnlyWithoutNameIdHex ==
    Parsed => ((output.name = None) <=> ~BeginsNameIdHex(DeclLine(input)))

\* the token is paramName:paramType
IsParamToken(token) ==
    LET n == IdentLen(token, 1)
    IN  n > 0 /\ n + 2 <= Len(token) /\ token[n + 1] = ":"

ParamName(token) == Slice(token, 1, IdentLen(token, 1))

ParamType(token) == From(token, IdentLen(token, 1) + 2)

\* the pairs (pi, ti) of the declaration with ti different from '#', in order
DeclaredPairs(params) ==
    LET kept == SelectSeq(params, LAMBDA t : IsParamToken(t) /\ ParamType(t) # HASH)
    IN  [k \in DOMAIN kept |-> [name |-> ParamName(kept[k]), type |-> ParamType(kept[k])]]

\* C15: for a declaration NAME#HEX p1:t1 ... pn:tn = R; parse_tl_definition returns
\* NAME and, as fields, exactly the pairs (pi, ti) with ti other than '#', in
\* declaration order and with ti unchanged; text that is no space-separated
\* paramName:paramType token gives no field.
C15_FieldsAreTheDeclaredPairs ==
    (Parsed /\ BeginsNameIdHex(DeclLine(input)) /\ input.result # <<>>) =>
        /\ output.name = input.name
        /\ [k \in DOMAIN output.fields |->
               [name |-> output.fields[k].name, type |-> output.fields[k].type]]
           = DeclaredPairs(input.params)

\* C16: for a declaration that parses, the result type returned is the whole
\* RESULT_TYPE token, the text between '=' and ';', namespaced and generic types
\* such as Vector<User> included.
C16_ResultTypeIsWholeToken ==
    (Parsed /\ output.name # None) => output.result_type = input.result

(***************************************************************************)
(* Claims about get_type_example and to_go_name                            *)
(***************************************************************************)
\* the effective type is Vector<Inner>
IsVectorType(field_type) ==
    LET t == EffectiveType(field_type)
    IN  /\ StartsWith(t, VECTOR \o <<"<">>)
        /\ Len(t) > Len(VECTOR) + 2
        /\ t[Len(t)] = ">"

\* Go text of a slice literal: []T{...} or []tg.T{...}
IsSliceLiteral(text) == text # <<>> /\ Head(text) \in {"[]", "[]tg."}

\* C18: for a field type Vector<Inner>, with or without the flags.N? prefix and for
\* every Inner (string included), get_type_example returns a slice literal, empty
\* or holding one example of Inner, never the scalar example of Inner.
C18_VectorGivesSliceLiteral ==
    (pc = "return example value" /\ IsVectorType(input.field_type))
        => IsSliceLiteral(output)

\* a capitalized type that is no primitive, no vector and no key of the
\* interface-example registry
IsUnregisteredComplexType(field_type) ==
    LET t == EffectiveType(field_type)
    IN  /\ t # <<>>
        /\ t[1] \in Upper
        /\ t # T_Bool
        /\ ~IsVectorType(field_type)
        /\ t \notin DOMAIN INTERFACE_EXAMPLES

\* the text is &tg.<mangled name of the effective type>{...}
IsInstanceOf(text, field_type) ==
    LET opening == Lit("&tg.") \o to_go_name(EffectiveType(field_type))
    IN  /\ StartsWith(text, opening)
        /\ Len(text) > Len(opening)
        /\ text[Len(opening) + 1] \in {"{", "{}"}

\* C19: get_type_example returns a text for every type string (the empty string,
\* lower-case unknown types, types of neither table), and for a capitalized complex
\* type that is no key of the interface-example registry the text is an instance of
\* that same type, &tg.<its mangled name>{...}, never of another type.
C19_UnregisteredTypeGivesItsOwnInstance ==
    pc = "return example value" =>
        /\ output # <<>>
        /\ IsUnregisteredComplexType(input.field_type) => IsInstanceOf(output, input.field_type)

\* C20: for every input x, to_go_name(x) holds no '.' and no '_'.
C20_GoNameHasNoDotNoUnderscore ==
    pc = "return go name" => \A i \in DOMAIN output : output[i] \notin {".", "_"}

\* C20 witness: a name with both separators whose Go name is not empty.
C20_Witness ==
    /\ pc = "return go name"
    /\ "." \in Range(input)
    /\ "_" \in Range(input)
    /\ output # <<>>

\* A word-like name: letters and digits, with '.' or '_' between them at will.
WordLike(name) == name # <<>> /\ \A i \in DOMAIN name : name[i] \in WordChar \cup {"."}

\* Two upper-case letters next to each other.
HasAdjacentUpper(s) == \E i \in 1..(Len(s) - 1) : s[i] \in Upper /\ s[i + 1] \in Upper

\* C21 as stated: for every word-like name x, to_go_name(to_go_name(x)) equals
\* to_go_name(x).
C21_GoNameIsIdempotent ==
    (pc = "return go name" /\ WordLike(input)) => to_go_name(output) = output

\* C21 amended: for every word-like name x whose Go name has no two adjacent
\* upper-case letters, to_go_name(to_go_name(x)) equals to_go_name(x).
C21_GoNameIsIdempotentWithoutAdjacentUpper ==
    (pc = "return go name" /\ WordLike(input) /\ ~HasAdjacentUpper(output))
        => to_go_name(output) = output

\* C21 witness: a name with a separator and an upper-case letter whose Go name
\* has two words and no two adjacent upper-case letters.
C21_Witness ==
    /\ pc = "return go name"
    /\ WordLike(input)
    /\ "." \in Range(input)
    /\ "B" \in Range(input)
    /\ Len(output) >= 3
    /\ ~HasAdjacentUpper(output)
    /\ to_go_name(output) = output

MethodPages ==
    {n \in DOMAIN written : written[n].page = "detail" /\ written[n].category = "method"}

\* C22: for every method and every type graph, one with a key equal to the method's
\* name or local name included, the name used in the method's example is the
\* mangled name without the Obj suffix.
C22_MethodKeepsMangledName ==
    \A n \in MethodPages : written[n].example.go_name = to_go_name(written[n].name)

\* C22 witness: the page of a namespaced method is written while the type graph
\* has a key equal to the method's local name.
C22_Witness ==
    \E n \in MethodPages :
        /\ "." \in Range(written[n].name)
        /\ HasKey(type_map, LastPart(written[n].name, "."))
        /\ written[n].example.go_name = to_go_name(written[n].name)

\* where the detail page of the j-th entity of a category is in the run's output:
\* after the four list pages, the type pages and the detail pages before it
DetailPageNumber(j, cat) ==
    4 + Len(type_map) + (IF cat = "constructor" THEN j ELSE Len(data.constructors) + j)

\* C23: once the type graph is built, no later step (list pages, type pages,
\* constructor pages, method pages, each with its example synthesis) changes the
\* type graph or the entity lists with their fields, and no page written is
\* written again; hence the detail page of every entity carries the display name
\* and example that the finished type graph gives that entity, wherever the
\* entity stands in the run.
C23_LaterStepsChangeNoSharedData ==
    [][TypeMapBuilt =>
         /\ type_map' = type_map
         /\ data' = data
         /\ \A n \in DOMAIN written : n \in DOMAIN written' /\ written'[n] = written[n]
         /\ \A j \in DOMAIN data.constructors :
               DetailPageNumber(j, "constructor") \in DOMAIN written'
                  => written'[DetailPageNumber(j, "constructor")]
                       = generate_detail_page(data.constructors[j], "constructor", type_map)
         /\ \A j \in DOMAIN data.methods :
               DetailPageNumber(j, "method") \in DOMAIN written'
                  => written'[DetailPageNumber(j, "method")]
                       = generate_detail_page(data.methods[j], "method", type_map)]_vars

\* C23 witness: a constructor page and a method page are written after a type
\* page, under a type graph with a key.
C23_Witness ==
    /\ pc = "done"
    /\ type_map # <<>>
    /\ ConstructorPages # {}
    /\ MethodPages # {}
    /\ \E n \in DOMAIN written : written[n].page = "type"

IsBlankLine(raw) == Strip(raw) = <<>>

IsCommentLine(raw) == StartsWith(Strip(raw), COMMENT)

\* neither blank, comment nor marker, and not beginning NAME '#' HEX
IsMalformedLine(raw) ==
    ~IsBlankLine(raw) /\ ~IsCommentLine(raw) /\ ~IsMarkerLine(raw) /\ ~IsDeclarationLine(raw)

IsSkippedLine(raw) == IsBlankLine(raw) \/ IsCommentLine(raw) \/ IsMalformedLine(raw)

\* C24: a blank, comment, section-marker or malformed line adds no entity to
\* either list (the lists hold one name per declaration line), and the lists and
\* the section flag are those of the file without its blank, comment and
\* malformed lines: such a line leaves the flag unchanged and every declaration
\* after it is processed and classified as if the line were absent.
C24_SkippedLinesChangeNothing ==
    /\ Len(constructors) + Len(methods)
         = Cardinality({i \in DOMAIN schema : IsDeclarationLine(schema[i])})
    /\ parse_schema_file(SelectSeq(schema, LAMBDA raw : ~IsSkippedLine(raw)))
         = [constructors |-> constructors, methods |-> methods,
            is_functions_section |-> is_functions_section]

\* C24 witness: in the function section, a malformed line and a comment line
\* stand before a declaration, which is listed as a method.
C24_Witness ==
    \E i, j, k, l \in DOMAIN schema :
        /\ i < j /\ j < k /\ k < l
        /\ Strip(schema[i]) = FUNCTIONS_MARKER
        /\ IsMalformedLine(schema[j])
        /\ IsCommentLine(schema[k])
        /\ IsDeclarationLine(schema[l])
        /\ methods = <<SchemaName(Strip(schema[l]))>>
        /\ is_functions_section

\* a name made of ASCII letters, digits, '.' and '_' only
IsAsciiName(name) == \A i \in DOMAIN name : name[i] \in WordChar \cup {"."}

LowerCased(s) == [i \in DOMAIN s |-> ToLower(s[i])]

WithoutSeparators(s) == SelectSeq(s, LAMBDA c : c \notin {".", "_"})

\* s is a concatenation of sub-words, each an upper-case letter followed by
\* lower-case letters only or a run of digits: s has letters and digits only, and
\* a lower-case letter of s comes after a letter
IsCapitalizedWords(s) ==
    \A i \in DOMAIN s :
        /\ s[i] \in Letter \cup Digit
        /\ s[i] \in Lower => (i > 1 /\ s[i - 1] \in Letter)

\* C25: for every name x of ASCII letters, digits, '.' and '_', to_go_name(x)
\* keeps every letter and digit of x in order and drops the separators only
\* (case-insensitively it is x without '.' and '_'), and it is made of sub-words
\* that start with an upper-case letter or a digit.
C25_GoNameKeepsLettersAndDigits ==
    (pc = "return go name" /\ IsAsciiName(input)) =>
        /\ LowerCased(output) = LowerCased(WithoutSeparators(input))
        /\ IsCapitalizedWords(output)

\* C25 witness: a name with a lower-case letter, an upper-case letter, a digit
\* and a separator, whose Go name has three characters.
C25_Witness ==
    /\ pc = "return go name"
    /\ IsAsciiName(input)
    /\ {"a", "B", "1"} \subseteq Range(input)
    /\ Range(input) \cap {".", "_"} # {}
    /\ Len(output) = 3

\* the entries emitted for the entity (name, cat), and the tasks submitted for it
EmittedFor(name, cat) ==
    Cardinality({k \in DOMAIN ResultList(cat) :
                    ResultList(cat)[k].name = name /\ ResultList(cat)[k].category = cat})

SubmittedFor(name, cat) ==
    Cardinality({t \in DOMAIN tasks : tasks[t].name = name /\ tasks[t].category = cat})

\* C26: when scrape_all writes its output, whatever the order in which the workers
\* completed and whichever fetches gave an entry, gave none or raised, the number
\* of emitted entries plus the failed counter is the number of submitted tasks, no
\* task has contributed more than one entry, and every entry is in the list of
\* its own category.
C26_EveryTaskIsCountedOnce ==
    pc = "saved" =>
        /\ results.metadata.successful + results.metadata.failed = Len(tasks)
        /\ results.metadata.successful = Len(results.constructors) + Len(results.methods)
        /\ \A t \in DOMAIN tasks :
              EmittedFor(tasks[t].name, tasks[t].category)
                 <= SubmittedFor(tasks[t].name, tasks[t].category)
        /\ \A k \in DOMAIN results.constructors :
              /\ results.constructors[k].category = "constructor"
              /\ SubmittedFor(results.constructors[k].name, "constructor") > 0
        /\ \A k \in DOMAIN results.methods :
              /\ results.methods[k].category = "method"
              /\ SubmittedFor(results.methods[k].name, "method") > 0

\* C26 witness: the output is written after one fetch raised, one gave no entry
\* and one gave an entry.
C26_Witness ==
    /\ pc = "saved"
    /\ \E t \in DOMAIN futures : futures[t].exception
    /\ \E t \in DOMAIN futures : ~futures[t].exception /\ futures[t].result = NoEntry
    /\ results.metadata.successful = 1
    /\ results.metadata.failed = 2

\* the entry of task t was built from the schema definitions: its fetch failed, or
\* its page had neither description nor parameters
UsedSchemaData(t) ==
    /\ futures[t].state = "consumed"
    /\ ~futures[t].exception
    /\ futures[t].result # NoEntry
    /\ tasks[t].name \in DOMAIN schema_definitions
    /\ FetchFailed(futures[t].page)
         \/ (futures[t].page.description = <<>> /\ futures[t].page.fields = <<>>)

\* line i of the schema declares the entity (name, cat)
Declares(i, name, cat) ==
    /\ IsDeclarationLine(schema[i])
    /\ SchemaName(Strip(schema[i])) = name
    /\ AfterFunctionsMarker(i) <=> (cat = "method")

\* C27: the fields, result type and raw declaration text of every entity emitted
\* from schema fallback data are those of a declaration line of the same kind and
\* name; a constructor and a method that share a name do not receive each
\* other's declaration.
C27_FallbackDataIsOfTheSameKindAndName ==
    \A t \in DOMAIN futures :
        UsedSchemaData(t) =>
            \E i \in DOMAIN schema :
                /\ Declares(i, tasks[t].name, tasks[t].category)
                /\ futures[t].result[1].raw_tl = Strip(schema[i])
                /\ futures[t].result[1].fields = parse_tl_definition(Strip(schema[i])).fields
                /\ futures[t].result[1].result_type
                     = parse_tl_definition(Strip(schema[i])).result_type

\* C28: every entity name that parse_schema_file lists, as a constructor or as a
\* method, is a key of the dictionary load_schema_definitions returns for the
\* same schema document.
C28_ListedNamesHaveDefinitions ==
    pc \in {"submit", "as_completed", "saved"} =>
        \A name \in Range(constructors) \cup Range(methods) :
            name \in DOMAIN schema_definitions

\* C29: under fairness of the worker pool, and every fetch returning or raising,
\* scrape_all eventually has consumed the result of every submitted task once
\* (completed is the number of tasks) and has written the output document, also
\* when the future of a task raises.
C29_EveryResultIsConsumedAndOutputWritten ==
    <>(/\ pc = "saved"
       /\ completed = Len(tasks)
       /\ \A k \in DOMAIN futures : futures[k].state = "consumed")

\* C29 witness: the output is written after three tasks, the second of which
\* raised.
C29_Witness ==
    /\ pc = "saved"
    /\ completed = 3
    /\ Len(tasks) = 3
    /\ futures[2].exception
    /\ ~futures[3].exception

\* no two constructors and no two methods of the document have the same name
NamesAreUniqueWithinKind ==
    /\ \A i, j \in DOMAIN data.constructors :
          data.constructors[i].name = data.constructors[j].name => i = j
    /\ \A i, j \in DOMAIN data.methods :
          data.methods[i].name = data.methods[j].name => i = j

\* the directory of a path and its file name: the text before and after its last '/'
FileName(path) == LastPart(path, "/")

Directory(path) == Slice(path, 1, Len(path) - Len(FileName(path)) - 1)

\* C30: when entity names are unique within a kind, no two pages written by
\* build_html_docs (index and list pages, type pages, constructor and method
\* detail pages) have the same path; and the page of a namespaced name is the file
\* named by the text after the last dot, in the directory named by the text
\* before it.
C30_EveryPageHasItsOwnPath ==
    NamesAreUniqueWithinKind =>
        /\ \A m, n \in DOMAIN written : written[m].path = written[n].path => m = n
        /\ \A n \in DetailPages :
              "." \in Range(written[n].name) =>
                 /\ FileName(written[n].path) = LastPart(written[n].name, ".") \o DOT_HTML
                 /\ Directory(written[n].path)
                      = CategoryText(written[n].category) \o <<"s","/">>
                        \o Slice(written[n].name, 1,
                                 Len(written[n].name) - Len(LastPart(written[n].name, ".")) - 1)

\* C30 witness: all pages are written for two constructors of different names,
\* one of them namespaced, and a method with the name of one of the constructors.
C30_Witness ==
    /\ pc = "done"
    /\ NamesAreUniqueWithinKind
    /\ Len(data.constructors) = 2
    /\ \E n \in ConstructorPages : "." \in Range(written[n].name)
    /\ \E m \in MethodPages : \E n \in ConstructorPages : written[m].name = written[n].name
    /\ \E n \in DOMAIN written : written[n].page = "type"

Spec == SpecScrape
====
